---- MODULE Spec2Model ----
(***************************************************************************)
(* CortexDev Local Project Analyzer (cortex-dev-analyzer.py, 1.2.0).       *)
(*                                                                         *)
(* Strings are sequences of one-character strings, so that ordering,       *)
(* splitting, joining and case folding are computed character by           *)
(* character as Python computes them.  The platform is POSIX: os.sep is    *)
(* "/" and a backslash is an ordinary file-name character.                 *)
(***************************************************************************)
EXTENDS Integers, Sequences, FiniteSets, TLC

VARIABLES
    \* build_tree_from_paths called on its own
    paths,              \* the list passed to build_tree_from_paths
    result,             \* what the call produced: a tree or a raised exception
    \* is_text_file called on its own
    cfile,              \* the file handed to is_text_file
    verdict,            \* what is_text_file returned and whether it opened the file
    \* the program run in a project directory
    fs,                 \* the project's files: relative path -> [nul, readable]
    out,                \* cortex-snapshot.json in the scan root
    clock,              \* the wall clock read by datetime.now
    run,                \* 1 for the first run of the script, 2 for the second
    pc,                 \* where the run is
    stack,              \* os.walk: the directories still to be visited
    current_path,       \* os.walk: the directory being listed (root of the triple)
    files,              \* the file names of current_path not yet processed
    all_file_paths,
    text_file_contents,
    file_tree,
    snapshot_data,
    exc,                \* the exception propagating out of main
    failure,            \* the Exception that escaped main in this run, if any
    notified,           \* the calls of show_message_and_exit in this run
    exit_code,          \* the process's exit status, -1 while it has none
    opens,              \* how often this run has opened the output file for writing
    docs                \* the snapshot documents written completely, in order

treeVars == <<paths, result>>

classifyVars == <<cfile, verdict>>

walkVars == <<stack, current_path, files>>

scanVars == <<all_file_paths, text_file_contents>>

runVars ==
    <<fs, out, clock, run, pc, walkVars, scanVars, file_tree, snapshot_data, exc, failure,
      notified, exit_code, opens, docs>>

vars == <<treeVars, classifyVars, runVars>>

(***************************************************************************)
(* Python str: code points, <, lower().                                    *)
(***************************************************************************)
Ord ==
    " " :> 32 @@ "!" :> 33 @@ "#" :> 35 @@ "$" :> 36 @@ "%" :> 37 @@
    "&" :> 38 @@ "'" :> 39 @@ "(" :> 40 @@ ")" :> 41 @@ "*" :> 42 @@ "+" :> 43 @@
    "," :> 44 @@ "-" :> 45 @@ "." :> 46 @@ "/" :> 47 @@ "0" :> 48 @@ "1" :> 49 @@
    "2" :> 50 @@ "3" :> 51 @@ "4" :> 52 @@ "5" :> 53 @@ "6" :> 54 @@ "7" :> 55 @@
    "8" :> 56 @@ "9" :> 57 @@ ":" :> 58 @@ ";" :> 59 @@ "<" :> 60 @@ "=" :> 61 @@
    ">" :> 62 @@ "?" :> 63 @@ "@" :> 64 @@ "A" :> 65 @@ "B" :> 66 @@ "C" :> 67 @@
    "D" :> 68 @@ "E" :> 69 @@ "F" :> 70 @@ "G" :> 71 @@ "H" :> 72 @@ "I" :> 73 @@
    "J" :> 74 @@ "K" :> 75 @@ "L" :> 76 @@ "M" :> 77 @@ "N" :> 78 @@ "O" :> 79 @@
    "P" :> 80 @@ "Q" :> 81 @@ "R" :> 82 @@ "S" :> 83 @@ "T" :> 84 @@ "U" :> 85 @@
    "V" :> 86 @@ "W" :> 87 @@ "X" :> 88 @@ "Y" :> 89 @@ "Z" :> 90 @@ "[" :> 91 @@
    "\\" :> 92 @@ "]" :> 93 @@ "^" :> 94 @@ "_" :> 95 @@ "a" :> 97 @@
    "b" :> 98 @@ "c" :> 99 @@ "d" :> 100 @@ "e" :> 101 @@ "f" :> 102 @@ "g" :> 103 @@
    "h" :> 104 @@ "i" :> 105 @@ "j" :> 106 @@ "k" :> 107 @@ "l" :> 108 @@ "m" :> 109 @@
    "n" :> 110 @@ "o" :> 111 @@ "p" :> 112 @@ "q" :> 113 @@ "r" :> 114 @@ "s" :> 115 @@
    "t" :> 116 @@ "u" :> 117 @@ "v" :> 118 @@ "w" :> 119 @@ "x" :> 120 @@ "y" :> 121 @@
    "z" :> 122 @@ "{" :> 123 @@ "|" :> 124 @@ "}" :> 125 @@ "~" :> 126

Chr(n) ==
    CHOOSE c \in DOMAIN Ord : Ord[c] = n

\* str.lower() on the ASCII range
lower_char(c) ==
    IF c \in DOMAIN Ord /\ Ord[c] >= 65 /\ Ord[c] <= 90 THEN Chr(Ord[c] + 32) ELSE c

lower(s) ==
    [i \in 1..Len(s) |-> lower_char(s[i])]

RECURSIVE StrLessFrom(_, _, _)
StrLessFrom(a, b, i) ==
    IF i > Len(a) THEN i <= Len(b)
    ELSE IF i > Len(b) THEN FALSE
    ELSE IF Ord[a[i]] < Ord[b[i]] THEN TRUE
    ELSE IF Ord[a[i]] > Ord[b[i]] THEN FALSE
    ELSE StrLessFrom(a, b, i + 1)

\* a < b on Python str: lexicographic by code point, a proper prefix is smaller
StrLess(a, b) ==
    StrLessFrom(a, b, 1)

\* insertion of x behind every element that is not greater than it (stable)
RECURSIVE InsertSorted(_, _)
InsertSorted(s, x) ==
    IF s = <<>> THEN <<x>>
    ELSE IF StrLess(x, Head(s)) THEN <<x>> \o s
    ELSE <<Head(s)>> \o InsertSorted(Tail(s), x)

RECURSIVE SortFrom(_, _, _)
SortFrom(s, i, acc) ==
    IF i > Len(s) THEN acc ELSE SortFrom(s, i + 1, InsertSorted(acc, s[i]))

\* a list that was never sorted: the elements in the order they came
sorted_noop(s) ==
    s

\* the builtin sorted() on a list of str
sorted(s) ==
    SortFrom(s, 1, <<>>)

\* str.replace(backslash, slash)
replace_backslash(s) ==
    [i \in 1..Len(s) |-> IF s[i] = "\\" THEN "/" ELSE s[i]]

\* joining two components with nothing between them
os_path_join_nosep(a, b) ==
    a \o b

\* posixpath.join(a, b)
os_path_join(a, b) ==
    IF b # <<>> /\ b[1] = "/" THEN b
    ELSE IF a = <<>> \/ a[Len(a)] = "/" THEN a \o b
    ELSE a \o <<"/">> \o b

RECURSIVE SplitFrom(_, _, _, _)
SplitFrom(s, i, cur, acc) ==
    IF i > Len(s) THEN (IF cur = <<>> THEN acc ELSE Append(acc, cur))
    ELSE IF s[i] = "/" THEN SplitFrom(s, i + 1, <<>>, IF cur = <<>> THEN acc ELSE Append(acc, cur))
    ELSE SplitFrom(s, i + 1, Append(cur, s[i]), acc)

IsDot(seg) ==
    seg = <<".">>

\* PurePosixPath(path).parts: split on "/", empty and "." components dropped,
\* a leading "/" kept as the root part
Parts(path) ==
    (IF path # <<>> /\ path[1] = "/" THEN << <<"/">> >> ELSE <<>>)
        \o SelectSeq(SplitFrom(path, 1, <<>>, <<>>), LAMBDA seg : ~IsDot(seg))

(***************************************************************************)
(* The intermediate dict of build_tree_from_paths.  A dict is the          *)
(* sequence of its items in insertion order; a value is None or a dict.    *)
(***************************************************************************)
NoneVal ==
    [none |-> TRUE, d |-> <<>>]

DictVal(d) ==
    [none |-> FALSE, d |-> d]

Keys(d) ==
    [i \in 1..Len(d) |-> d[i].k]

HasKey(d, k) ==
    \E i \in 1..Len(d) : d[i].k = k

IndexOf(d, k) ==
    CHOOSE i \in 1..Len(d) : d[i].k = k

GetItem(d, k) ==
    d[IndexOf(d, k)].v

\* d[k] = v: an existing key keeps its place, a new one goes last
SetItem(d, k, v) ==
    IF HasKey(d, k) THEN [d EXCEPT ![IndexOf(d, k)].v = v]
    ELSE Append(d, [k |-> k, v |-> v])

\* d[k] = v whether or not k is there already
setdefault_overwrite(d, k, v) ==
    SetItem(d, k, v)

\* d.setdefault(k, v): the dict afterwards (the call returns GetItem of it)
setdefault(d, k, v) ==
    IF HasKey(d, k) THEN d ELSE Append(d, [k |-> k, v |-> v])

Returned(d) ==
    [ok |-> TRUE, d |-> d, exc |-> "none"]

Raised(e) ==
    [ok |-> FALSE, d |-> <<>>, exc |-> e]

\* the body of "for path in sorted(paths)" for one path, from the dict node
RECURSIVE InsertPath(_, _)
InsertPath(node, parts) ==
    IF Len(parts) = 1 THEN Returned(SetItem(node, parts[1], NoneVal))
    ELSE LET part == Head(parts)
             node1 == setdefault(node, part, DictVal(<<>>))
             child == GetItem(node1, part)
         IN  IF child.none
             THEN \* node is now None: None.setdefault(...) or None[...] = None
                  Raised(IF Len(parts) > 2 THEN "AttributeError" ELSE "TypeError")
             ELSE LET r == InsertPath(child.d, Tail(parts))
                  IN  IF r.ok THEN Returned(SetItem(node1, part, DictVal(r.d))) ELSE r

RECURSIVE InsertAll(_, _, _)
InsertAll(tree, ps, i) ==
    IF i > Len(ps) THEN Returned(tree)
    ELSE LET r == InsertPath(tree, Parts(ps[i]))
         IN  IF r.ok THEN InsertAll(r.d, ps, i + 1) ELSE r

\* node_dict.items() as it stands
items_unsorted(node_dict) ==
    node_dict

\* sorted(node_dict.items()): keys are unique, so the names decide
sorted_items(node_dict) ==
    LET ks == sorted(Keys(node_dict))
    IN  [i \in 1..Len(ks) |-> [k |-> ks[i], v |-> GetItem(node_dict, ks[i])]]

RECURSIVE format_tree(_, _)
format_tree(node_dict, parent_path) ==
    LET its == sorted_items(node_dict)
        key_path(name) ==
            replace_backslash(IF parent_path # <<>> THEN os_path_join(parent_path, name) ELSE name)
    IN  [i \in 1..Len(its) |->
            IF its[i].v.none
            THEN [key |-> key_path(its[i].k), title |-> its[i].k, type |-> "file"]
            ELSE [key |-> key_path(its[i].k), title |-> its[i].k, type |-> "folder",
                  children |-> format_tree(its[i].v.d, key_path(its[i].k))]]

build_tree_from_paths(ps) ==
    LET r == InsertAll(<<>>, sorted(ps), 1)
    IN  IF r.ok THEN [ok |-> TRUE, tree |-> format_tree(r.d, <<>>), exc |-> "none"]
        ELSE [ok |-> FALSE, tree |-> <<>>, exc |-> r.exc]

(***************************************************************************)
(* Configuration and is_text_file.                                         *)
(***************************************************************************)
DEFAULT_IGNORE_DIRS ==
    {
      <<".", "g", "i", "t">>, <<"_", "_", "p", "y", "c", "a", "c", "h", "e", "_", "_">>, <<"n", "o", "d", "e", "_", "m", "o", "d", "u", "l", "e", "s">>,
      <<"v", "e", "n", "v">>, <<".", "v", "e", "n", "v">>, <<"d", "i", "s", "t">>,
      <<"b", "u", "i", "l", "d">>, <<".", "i", "d", "e", "a">>, <<".", "v", "s", "c", "o", "d", "e">>,
      <<"t", "a", "r", "g", "e", "t">>, <<"o", "u", "t">>
    }

BINARY_FILE_EXTENSIONS ==
    {
      <<".", "p", "n", "g">>, <<".", "j", "p", "g">>, <<".", "j", "p", "e", "g">>, <<".", "g", "i", "f">>,
      <<".", "b", "m", "p">>, <<".", "i", "c", "o">>, <<".", "s", "v", "g">>, <<".", "z", "i", "p">>,
      <<".", "g", "z">>, <<".", "t", "a", "r">>, <<".", "r", "a", "r">>, <<".", "p", "d", "f">>,
      <<".", "d", "o", "c">>, <<".", "d", "o", "c", "x">>, <<".", "x", "l", "s">>, <<".", "x", "l", "s", "x">>,
      <<".", "p", "p", "t">>, <<".", "p", "p", "t", "x">>, <<".", "e", "x", "e">>, <<".", "d", "l", "l">>,
      <<".", "s", "o">>, <<".", "o">>, <<".", "a">>, <<".", "j", "a", "r">>,
      <<".", "c", "l", "a", "s", "s">>, <<".", "m", "p", "3">>, <<".", "w", "a", "v">>, <<".", "f", "l", "a", "c">>,
      <<".", "m", "p", "4">>, <<".", "m", "k", "v">>, <<".", "a", "v", "i">>, <<".", "m", "o", "v">>,
      <<".", "t", "t", "f">>, <<".", "w", "o", "f", "f">>, <<".", "w", "o", "f", "f", "2">>, <<".", "e", "o", "t">>,
      <<".", "d", "b">>, <<".", "s", "q", "l", "i", "t", "e">>, <<".", "s", "q", "l", "i", "t", "e", "3">>
    }

OUTPUT_FILENAME ==
    <<"c", "o", "r", "t", "e", "x", "-", "s", "n", "a", "p", "s", "h", "o", "t", ".", "j", "s", "o", "n">>

FORCE_TEXT_FILE_EXTENSIONS ==
    {
      <<".", "j", "s", "o", "n">>, <<".", "y", "a", "m", "l">>, <<".", "y", "m", "l">>, <<".", "m", "d">>,
      <<".", "t", "x", "t">>, <<".", "l", "o", "g">>, <<".", "x", "m", "l">>, <<".", "i", "n", "i">>,
      <<".", "c", "f", "g">>, <<".", "c", "o", "n", "f">>, <<".", "p", "y">>, <<".", "j", "s">>,
      <<".", "j", "s", "x">>, <<".", "t", "s">>, <<".", "t", "s", "x">>, <<".", "h", "t", "m", "l">>,
      <<".", "c", "s", "s">>, <<".", "s", "c", "s", "s">>, <<".", "l", "e", "s", "s">>, <<".", "j", "a", "v", "a">>,
      <<".", "c", "s">>, <<".", "c">>, <<".", "c", "p", "p">>, <<".", "h">>,
      <<".", "h", "p", "p">>, <<".", "g", "o">>, <<".", "r", "b">>, <<".", "r", "s">>,
      <<".", "s", "h">>, <<".", "v", "u", "e">>, <<".", "s", "v", "e", "l", "t", "e">>, <<".", "t", "o", "m", "l">>,
      <<".", "e", "n", "v">>
    }

\* the argument of f.read(1024)
SNIFF_BYTES ==
    1024

RECURSIVE rfind_dot(_, _)
rfind_dot(name, i) ==
    IF i = 0 THEN 0 ELSE IF name[i] = "." THEN i ELSE rfind_dot(name, i - 1)

\* PurePath.name: the final component
basename(path) ==
    LET ps == Parts(path) IN IF ps = <<>> THEN <<>> ELSE ps[Len(ps)]

\* PurePath.suffix: from the last dot of the name, unless the name starts or ends with it
suffix(path) ==
    LET name == basename(path)
        i == rfind_dot(name, Len(name))
    IN  IF 0 < i - 1 /\ i - 1 < Len(name) - 1 THEN SubSeq(name, i, Len(name)) ELSE <<>>

\* b'\0' in f.read(1024): nul is the offset of the file's first NUL byte, -1 without one
NulInChunk(f) ==
    f.nul >= 0 /\ f.nul < SNIFF_BYTES

\* the content looked at before the extension lists
is_text_file_sniff_first(f) ==
    IF ~f.readable THEN [ret |-> FALSE, opened |-> TRUE]
    ELSE IF NulInChunk(f) THEN [ret |-> FALSE, opened |-> TRUE]
    ELSE IF lower(suffix(f.path)) \in BINARY_FILE_EXTENSIONS THEN [ret |-> FALSE, opened |-> TRUE]
    ELSE [ret |-> TRUE, opened |-> TRUE]

\* ret: the value returned; opened: whether open(file_path, 'rb') was attempted
is_text_file(f) ==
    LET file_ext == lower(suffix(f.path))
    IN  IF file_ext \in FORCE_TEXT_FILE_EXTENSIONS THEN [ret |-> TRUE, opened |-> FALSE]
        ELSE IF file_ext \in BINARY_FILE_EXTENSIONS THEN [ret |-> FALSE, opened |-> FALSE]
        ELSE IF ~f.readable THEN [ret |-> FALSE, opened |-> TRUE]
        ELSE IF NulInChunk(f) THEN [ret |-> FALSE, opened |-> TRUE]
        ELSE [ret |-> TRUE, opened |-> TRUE]

(***************************************************************************)
(* Inputs.                                                                 *)
(***************************************************************************)
MaxPaths ==
    3

\* segment names: a name, a name that extends it with a character below "/",
\* and a name holding a backslash
Segs ==
    { <<"a">>, <<"a", "-">>, <<"\\">> }

PathUniverse ==
    Segs \cup { s \o <<"/">> \o t : s, t \in Segs } \cup { <<"a", "/", "a", "/", "a">> }

PathLists ==
    UNION { [1..n -> PathUniverse] : n \in 0..MaxPaths }

NulOffsets ==
    { -1, 0, SNIFF_BYTES - 1, SNIFF_BYTES }

ClassifyNames ==
    { <<"a", ".", "p", "y">>, <<"a", ".", "P", "Y">>, <<"a", ".", "p", "n", "g">>,
      <<"A", ".", "P", "n", "G">>, <<"n">>, <<"d", "/", "m", ".", "b", "i", "n">>,
      <<".", "e", "n", "v">>, <<"x", ".", "e", "n", "v">>, <<"a", ".">>,
      <<"r", "e", "a", "d", "m", "e", ".", "m", "d">>, <<"a", ".", "p", "y", ".", "s", "o">> }

NoFile ==
    [path |-> <<>>, nul |-> -1, readable |-> FALSE]

NoVerdict ==
    [done |-> FALSE, ret |-> FALSE, opened |-> FALSE]

NoResult ==
    [done |-> FALSE, ok |-> FALSE, tree |-> <<>>, exc |-> "none"]

(***************************************************************************)
(* The run of the script in a project directory: main under the            *)
(* try/except of the __main__ block, once and then once more.              *)
(***************************************************************************)
MaxFiles ==
    2

\* os.path.basename(__file__)
SCRIPT_BASENAME ==
    <<"c", "o", "r", "t", "e", "x", "-", "d", "e", "v", "-", "a", "n", "a", "l", "y", "z", "e", "r", ".", "p", "y">>

RunPaths ==
    { <<"n">>,
      <<"d", "/", "n">>,
      <<"d", "/", "a", ".", "m", "d">>,
      <<".", "g", "i", "t", "/", "c">>,
      SCRIPT_BASENAME,
      <<"d", "/">> \o OUTPUT_FILENAME }

FileAttrs ==
    [nul : {-1, 0}, readable : BOOLEAN]

Projects ==
    UNION { [P -> FileAttrs] : P \in { Q \in SUBSET RunPaths : Cardinality(Q) <= MaxFiles } }

NoTree ==
    [built |-> FALSE, tree |-> <<>>]

NoDoc ==
    [version |-> "", createdAt |-> 0, tree |-> <<>>, files |-> <<>>]

\* the document an earlier run left in the directory, if one did
StaleDoc ==
    [version |-> "1.2.0", createdAt |-> 0, tree |-> <<>>, files |-> <<>>]

NoExc ==
    [type |-> "none", code |-> 0]

\* the variables of the run while only a function is exercised
RunIdle ==
    /\ fs = <<>>
    /\ out = [state |-> "absent", doc |-> NoDoc]
    /\ clock = 0
    /\ run = 1
    /\ pc = "idle"
    /\ stack = <<>> /\ current_path = <<>> /\ files = <<>>
    /\ all_file_paths = <<>> /\ text_file_contents = <<>>
    /\ file_tree = NoTree
    /\ snapshot_data = NoDoc
    /\ exc = NoExc
    /\ failure = "none"
    /\ notified = <<>>
    /\ exit_code = -1
    /\ opens = 0
    /\ docs = <<>>

RECURSIVE JoinSegs(_)
JoinSegs(segs) ==
    IF segs = <<>> THEN <<>>
    ELSE IF Len(segs) = 1 THEN segs[1]
    ELSE segs[1] \o <<"/">> \o JoinSegs(Tail(segs))

\* every file below the scan root: the project's, and the output file once it exists
Present ==
    DOMAIN fs \cup (IF out.state # "absent" THEN {OUTPUT_FILENAME} ELSE {})

ParentOf(p) ==
    SubSeq(Parts(p), 1, Len(Parts(p)) - 1)

\* the file names os.walk lists for a directory
FilesIn(dir) ==
    { basename(p) : p \in { q \in Present : ParentOf(q) = dir } }

\* the directory names os.walk lists for a directory
SubdirsOf(dir) ==
    { Parts(p)[Len(dir) + 1] :
        p \in { q \in Present : Len(Parts(q)) > Len(dir) + 1
                                  /\ SubSeq(Parts(q), 1, Len(dir)) = dir } }

\* os.scandir gives the entries in no particular order
Orderings(S) ==
    { o \in [1..Cardinality(S) -> S] : \A i, j \in 1..Cardinality(S) : i # j => o[i] # o[j] }

\* dirs[:] = [d for d in dirs if d not in DEFAULT_IGNORE_DIRS]
KeptDirs(ds) ==
    SelectSeq(ds, LAMBDA d : d \notin DEFAULT_IGNORE_DIRS)

\* the names skipped, as if the output of an earlier run were a project file
ExcludedNames_script_only ==
    {SCRIPT_BASENAME}

\* {os.path.basename(__file__), OUTPUT_FILENAME}
ExcludedNames ==
    {SCRIPT_BASENAME, OUTPUT_FILENAME}

\* str(file_path.relative_to(root_path)).replace(os.sep, '/')
relative_path_str(dir, filename) ==
    JoinSegs(Append(dir, filename))

AttrsOf(rel) ==
    IF rel \in DOMAIN fs THEN fs[rel] ELSE [nul |-> -1, readable |-> TRUE]

\* f.read() of the file opened as text: what the file holds
ReadContent(rel) ==
    IF rel \in DOMAIN fs THEN [of |-> rel, nul |-> fs[rel].nul] ELSE [of |-> rel, doc |-> out.doc]

\* the path recorded only once the file has been classified and, if text, read
VisitFile_append_after_read(rel, acc) ==
    LET f == [path |-> rel] @@ AttrsOf(rel)
    IN  IF is_text_file(f).ret
        THEN IF f.readable
             THEN [paths |-> Append(acc.paths, rel),
                   contents |-> (rel :> ReadContent(rel)) @@ acc.contents]
             ELSE acc
        ELSE [acc EXCEPT !.paths = Append(@, rel)]

\* the body of "for filename in files" behind the name check
VisitFile(rel, acc) ==
    LET f == [path |-> rel] @@ AttrsOf(rel)
        acc1 == [acc EXCEPT !.paths = Append(@, rel)]
    IN  IF is_text_file(f).ret
        THEN IF f.readable
             THEN [acc1 EXCEPT !.contents = (rel :> ReadContent(rel)) @@ @]
             ELSE acc1     \* except Exception: a warning is printed
        ELSE acc1

\* an except clause that catches everything, SystemExit too
CaughtByExcept_bare(type) ==
    TRUE

\* "except Exception": SystemExit and KeyboardInterrupt are not Exceptions
CaughtByExcept(type) ==
    type \notin {"SystemExit", "KeyboardInterrupt"}

\* a check that never finds the list empty
NothingFound_never ==
    FALSE

\* "if not all_paths"
NothingFound ==
    all_file_paths = <<>>

\* show_message_and_exit: the message is printed, shown in a dialog when
\* tkinter is there and works, and sys.exit raises SystemExit
show_message_and_exit(is_error) ==
    /\ \E gui \in {"dialog", "console only"} :
          notified' = Append(notified, [is_error |-> is_error, gui |-> gui])
    /\ exc' = [type |-> "SystemExit", code |-> IF is_error THEN 1 ELSE 0]

InitRun ==
    /\ fs \in Projects
    /\ out \in { [state |-> "absent", doc |-> NoDoc], [state |-> "complete", doc |-> StaleDoc] }
    /\ clock = 1
    /\ run = 1
    /\ pc = "start"
    /\ stack = <<>> /\ current_path = <<>> /\ files = <<>>
    /\ all_file_paths = <<>> /\ text_file_contents = <<>>
    /\ file_tree = NoTree
    /\ snapshot_data = NoDoc
    /\ exc = NoExc
    /\ failure = "none"
    /\ notified = <<>>
    /\ exit_code = -1
    /\ opens = 0
    /\ docs = <<>>
    /\ paths = <<>> /\ result = NoResult
    /\ cfile = NoFile /\ verdict = NoVerdict

\* main up to the call of os.walk
StartScan ==
    /\ pc = "start"
    /\ pc' = "walking"
    /\ stack' = << <<>> >>
    /\ current_path' = <<>>
    /\ files' = <<>>
    /\ all_file_paths' = <<>>
    /\ text_file_contents' = <<>>
    /\ UNCHANGED <<fs, out, clock, run, file_tree, snapshot_data, exc, failure, notified,
                   exit_code, opens, docs, treeVars, classifyVars>>

\* os.walk yields the next directory, top down; the ignored directories are
\* taken out of dirs, the others are walked next, before the ones waiting
EnterDir ==
    /\ pc = "walking"
    /\ files = <<>>
    /\ stack # <<>>
    /\ LET dir == Head(stack)
       IN  \E fo \in Orderings(FilesIn(dir)), do \in Orderings(SubdirsOf(dir)) :
              /\ current_path' = dir
              /\ files' = fo
              /\ stack' = [i \in 1..Len(KeptDirs(do)) |-> Append(dir, KeptDirs(do)[i])]
                              \o Tail(stack)
    /\ UNCHANGED <<fs, out, clock, run, pc, scanVars, file_tree, snapshot_data, exc, failure,
                   notified, exit_code, opens, docs, treeVars, classifyVars>>

\* one pass of "for filename in files"
ProcessFile ==
    /\ pc = "walking"
    /\ files # <<>>
    /\ files' = Tail(files)
    /\ IF Head(files) \in ExcludedNames
       THEN UNCHANGED scanVars
       ELSE LET acc == VisitFile(relative_path_str(current_path, Head(files)),
                                 [paths |-> all_file_paths, contents |-> text_file_contents])
            IN  /\ all_file_paths' = acc.paths
                /\ text_file_contents' = acc.contents
    /\ UNCHANGED <<fs, out, clock, run, pc, stack, current_path, file_tree, snapshot_data, exc, failure,
                   notified, exit_code, opens, docs, treeVars, classifyVars>>

\* os.walk is exhausted: analyze_directory returns
FinishScan ==
    /\ pc = "walking"
    /\ files = <<>>
    /\ stack = <<>>
    /\ pc' = "scanned"
    /\ UNCHANGED <<fs, out, clock, run, walkVars, scanVars, file_tree, snapshot_data, exc,
                   failure, notified, exit_code, opens, docs, treeVars, classifyVars>>

\* no file was found: a message, and sys.exit(0)
ReportEmpty ==
    /\ pc = "scanned"
    /\ NothingFound
    /\ show_message_and_exit(FALSE)
    /\ pc' = "raising"
    /\ UNCHANGED <<fs, out, clock, run, walkVars, scanVars, file_tree, snapshot_data, failure,
                   exit_code, opens, docs, treeVars, classifyVars>>

\* the tree is built and the document put together
BuildAndAssemble ==
    /\ pc = "scanned"
    /\ ~NothingFound
    /\ LET r == build_tree_from_paths(all_file_paths)
       IN  IF r.ok
           THEN /\ file_tree' = [built |-> TRUE, tree |-> r.tree]
                /\ snapshot_data' = [version |-> "1.2.0", createdAt |-> clock,
                                     tree |-> r.tree, files |-> text_file_contents]
                /\ pc' = "assembled"
                /\ UNCHANGED <<exc, failure>>
           ELSE /\ exc' = [type |-> r.exc, code |-> 0]
                /\ failure' = r.exc
                /\ pc' = "raising"
                /\ UNCHANGED <<file_tree, snapshot_data>>
    /\ UNCHANGED <<fs, out, clock, run, walkVars, scanVars, notified, exit_code, opens, docs,
                   treeVars, classifyVars>>

\* open(output_path, 'w'): the file is created or cut to nothing, or the open fails
OpenOutput ==
    /\ pc = "assembled"
    /\ \E ok \in BOOLEAN :
          IF ok
          THEN /\ out' = [state |-> "partial", doc |-> NoDoc]
               /\ opens' = opens + 1
               /\ pc' = "opened"
               /\ UNCHANGED <<exc, failure>>
          ELSE /\ exc' = [type |-> "OSError", code |-> 0]
               /\ failure' = "OSError"
               /\ pc' = "raising"
               /\ UNCHANGED <<out, opens>>
    /\ UNCHANGED <<fs, clock, run, walkVars, scanVars, file_tree, snapshot_data, notified,
                   exit_code, docs, treeVars, classifyVars>>

\* json.dump writes the document piece by piece and the file is closed, or a
\* write fails on the way
DumpOutput ==
    /\ pc = "opened"
    /\ \E ok \in BOOLEAN :
          IF ok
          THEN /\ out' = [state |-> "complete", doc |-> snapshot_data]
               /\ docs' = Append(docs, snapshot_data)
               /\ pc' = "written"
               /\ UNCHANGED <<exc, failure>>
          ELSE /\ exc' = [type |-> "OSError", code |-> 0]
               /\ failure' = "OSError"
               /\ pc' = "raising"
               /\ UNCHANGED <<out, docs>>
    /\ UNCHANGED <<fs, clock, run, walkVars, scanVars, file_tree, snapshot_data, notified,
                   exit_code, opens, treeVars, classifyVars>>

\* the closing message, and sys.exit(0)
ReportDone ==
    /\ pc = "written"
    /\ show_message_and_exit(FALSE)
    /\ pc' = "raising"
    /\ UNCHANGED <<fs, out, clock, run, walkVars, scanVars, file_tree, snapshot_data, failure,
                   exit_code, opens, docs, treeVars, classifyVars>>

\* the try/except around main(): an Exception is reported and the exit
\* status is 1; anything else leaves the process with its own status
TopLevel ==
    /\ pc = "raising"
    /\ IF CaughtByExcept(exc.type)
       THEN /\ show_message_and_exit(TRUE)
            /\ exit_code' = 1
       ELSE /\ exit_code' = exc.code
            /\ UNCHANGED <<exc, notified>>
    /\ pc' = "exited"
    /\ UNCHANGED <<fs, out, clock, run, walkVars, scanVars, file_tree, snapshot_data, failure,
                   opens, docs, treeVars, classifyVars>>

\* the process is terminated from outside
Kill ==
    /\ pc \in {"start", "walking", "scanned", "assembled", "opened", "written", "raising"}
    /\ pc' = "killed"
    /\ UNCHANGED <<fs, out, clock, run, walkVars, scanVars, file_tree, snapshot_data, exc,
                   failure, notified, exit_code, opens, docs, treeVars, classifyVars>>

\* the script is started again in the same directory, later
StartSecondRun ==
    /\ pc \in {"exited", "killed"}
    /\ run = 1
    /\ run' = 2
    /\ clock' = clock + 1
    /\ pc' = "start"
    /\ stack' = <<>> /\ current_path' = <<>> /\ files' = <<>>
    /\ all_file_paths' = <<>> /\ text_file_contents' = <<>>
    /\ file_tree' = NoTree
    /\ snapshot_data' = NoDoc
    /\ exc' = NoExc
    /\ failure' = "none"
    /\ notified' = <<>>
    /\ exit_code' = -1
    /\ opens' = 0
    /\ UNCHANGED <<fs, out, docs, treeVars, classifyVars>>

Next ==
    \/ StartScan
    \/ EnterDir
    \/ ProcessFile
    \/ FinishScan
    \/ ReportEmpty
    \/ BuildAndAssemble
    \/ OpenOutput
    \/ DumpOutput
    \/ ReportDone
    \/ TopLevel
    \/ Kill
    \/ StartSecondRun

Spec ==
    InitRun /\ [][Next]_vars

(***************************************************************************)
(* build_tree_from_paths on any list of paths.                             *)
(***************************************************************************)
InitTree ==
    /\ paths \in PathLists
    /\ result = NoResult
    /\ cfile = NoFile
    /\ verdict = NoVerdict
    /\ RunIdle

CallBuildTree ==
    /\ ~result.done
    /\ result' = [done |-> TRUE] @@ build_tree_from_paths(paths)
    /\ UNCHANGED <<paths, classifyVars, runVars>>

NextTree ==
    CallBuildTree

SpecTree ==
    InitTree /\ [][NextTree]_vars

(***************************************************************************)
(* is_text_file on any file.                                               *)
(***************************************************************************)
InitClassify ==
    /\ cfile \in [path : ClassifyNames, nul : NulOffsets, readable : BOOLEAN]
    /\ verdict = NoVerdict
    /\ paths = <<>>
    /\ result = NoResult
    /\ RunIdle

CallIsTextFile ==
    /\ ~verdict.done
    /\ verdict' = [done |-> TRUE] @@ is_text_file(cfile)
    /\ UNCHANGED <<cfile, treeVars, runVars>>

NextClassify ==
    CallIsTextFile

SpecClassify ==
    InitClassify /\ [][NextClassify]_vars

(***************************************************************************)
(* Properties of build_tree_from_paths (under SpecTree).                   *)
(***************************************************************************)
Elems(s) ==
    { s[i] : i \in 1..Len(s) }

IsProperPrefix(a, b) ==
    Len(a) < Len(b) /\ SubSeq(b, 1, Len(a)) = a

\* some path of the list is a file where another path of the list needs a folder
HasCollision(ps) ==
    \E i, j \in 1..Len(ps) : IsProperPrefix(Parts(ps[i]), Parts(ps[j]))

NoBackslash(ps) ==
    \A i \in 1..Len(ps) : \A k \in 1..Len(ps[i]) : ps[i][k] # "\\"

Permuted(ps) ==
    { [i \in 1..Len(ps) |-> ps[f[i]]] : f \in Permutations(1..Len(ps)) }

IsFolder(n) ==
    n.type = "folder"

RECURSIVE Ascending(_)
Ascending(nodes) ==
    /\ \A i, j \in 1..Len(nodes) : i < j => StrLess(nodes[i].title, nodes[j].title)
    /\ \A i \in 1..Len(nodes) : IsFolder(nodes[i]) => Ascending(nodes[i].children)

\* the keys of the file nodes, depth first in the order of the tree
RECURSIVE FileKeys(_)
FileKeys(nodes) ==
    IF nodes = <<>> THEN <<>>
    ELSE (IF IsFolder(Head(nodes)) THEN FileKeys(Head(nodes).children) ELSE <<Head(nodes).key>>)
            \o FileKeys(Tail(nodes))

RECURSIVE Dedup(_)
Dedup(s) ==
    IF Len(s) <= 1 THEN s
    ELSE IF s[1] = s[2] THEN Dedup(Tail(s)) ELSE <<s[1]>> \o Dedup(Tail(s))

\* C1: for a list of paths without a file/folder name collision, every
\* permutation of the list gives build_tree_from_paths the same outcome: a
\* tree, deeply equal to the one of the list as given.
C1_OrderIndependent ==
    (result.done /\ ~HasCollision(paths)) =>
        /\ result.ok
        /\ \A qs \in Permuted(paths) :
              LET r == build_tree_from_paths(qs)
              IN  r.ok /\ r.tree = result.tree

\* three different paths, given in an order that is not the sorted one, some in a folder
C1_Witness ==
    /\ result.done /\ ~HasCollision(paths)
    /\ Len(paths) = 3 /\ Cardinality(Elems(paths)) = 3
    /\ StrLess(paths[3], paths[1])
    /\ \E i \in 1..Len(result.tree) : IsFolder(result.tree[i])

\* C2: in a returned tree the siblings of every level, the root sequence and
\* the children of every folder, are in strictly ascending order of title.
C2_SiblingsAscending ==
    (result.done /\ result.ok) => Ascending(result.tree)

\* a folder with two children before a file, where the first path inserted
\* is not the first node of the tree
C2_Witness ==
    /\ result.done /\ result.ok
    /\ Len(result.tree) = 2
    /\ IsFolder(result.tree[1]) /\ Len(result.tree[1].children) = 2
    /\ Parts(sorted(paths)[1])[1] # result.tree[1].title

\* C3 as stated, on the inputs most favourable to it (no file/folder name
\* collision, no backslash): the keys of the file nodes, in the order of the
\* tree, are the sorted list of paths without its duplicates.
C3_Original ==
    (result.done /\ ~HasCollision(paths) /\ NoBackslash(paths)) =>
        (result.ok /\ FileKeys(result.tree) = Dedup(sorted(paths)))

\* C3 amended: for a list of paths without a file/folder name collision and
\* without a backslash, the keys of the file nodes are exactly the paths of
\* the list, each once (in the order of the tree, not of the sorted list).
C3_KeysAreThePaths ==
    (result.done /\ ~HasCollision(paths) /\ NoBackslash(paths)) =>
        /\ result.ok
        /\ Elems(FileKeys(result.tree)) = Elems(paths)
        /\ Len(FileKeys(result.tree)) = Cardinality(Elems(paths))

\* a list with a duplicate and a nested path whose tree order is not the sorted order
C3_Witness ==
    /\ result.done /\ ~HasCollision(paths) /\ NoBackslash(paths)
    /\ Len(paths) = 3 /\ Cardinality(Elems(paths)) = 2
    /\ FileKeys(result.tree) # Dedup(sorted(paths))

\* C10 as stated: with a path recorded as a file and another path below it,
\* build_tree_from_paths does not fail and returns a tree.
C10_Original ==
    (result.done /\ HasCollision(paths)) => result.ok

\* C10 amended: with a path p recorded as a file and a path p/x below it,
\* build_tree_from_paths raises (TypeError, or AttributeError when more than
\* one segment follows p) and returns no tree: the sort puts p first, and
\* setdefault then hands back the terminal marker.
C10_CollisionRaises ==
    (result.done /\ HasCollision(paths)) =>
        /\ ~result.ok
        /\ result.exc \in {"TypeError", "AttributeError"}
        /\ result.tree = <<>>

\* the file is given after the path below it, and the call has raised
C10_Witness ==
    /\ result.done /\ ~result.ok
    /\ Len(paths) = 2
    /\ IsProperPrefix(Parts(paths[2]), Parts(paths[1]))

(***************************************************************************)
(* Properties of the run (under Spec).                                     *)
(***************************************************************************)
\* the project files the snapshot is about: not below an ignored directory,
\* not named like the script or like the output file
Eligible ==
    { p \in DOMAIN fs :
        /\ basename(p) # SCRIPT_BASENAME
        /\ basename(p) # OUTPUT_FILENAME
        /\ \A i \in 1..(Len(Parts(p)) - 1) : Parts(p)[i] \notin DEFAULT_IGNORE_DIRS }

\* C5: a file that cannot be sniffed or read does not abort the scan: when
\* analyze_directory returns, the path list holds every eligible file, the
\* unreadable ones too, the content mapping holds none of the unreadable
\* ones, the tree built from the list has a file node for every eligible
\* file, and no exception leaves main before every file was processed.
C5_PerFileFailureContained ==
    /\ pc = "scanned" =>
          /\ Elems(all_file_paths) = Eligible
          /\ Len(all_file_paths) = Cardinality(Eligible)
          /\ \A p \in Eligible : ~fs[p].readable => p \notin DOMAIN text_file_contents
    /\ file_tree.built => Elems(FileKeys(file_tree.tree)) = Eligible
    /\ failure # "none" => Elems(all_file_paths) = Eligible

\* the first file processed could not be read, the second one was read
C5_Witness ==
    /\ pc = "scanned"
    /\ Len(all_file_paths) = 2
    /\ ~fs[all_file_paths[1]].readable
    /\ fs[all_file_paths[2]].readable
    /\ all_file_paths[2] \in DOMAIN text_file_contents

\* C6: with no eligible file the run never opens the output file and builds
\* no tree, and it ends with exactly one notification, not an error, and
\* exit status 0.
C6_EmptyProject ==
    Eligible = {} =>
        /\ opens = 0
        /\ out \in { [state |-> "absent", doc |-> NoDoc], [state |-> "complete", doc |-> StaleDoc] }
        /\ ~file_tree.built
        /\ pc = "exited" =>
              /\ exit_code = 0
              /\ Len(notified) = 1
              /\ ~notified[1].is_error

\* a directory holding only an old snapshot and two files that do not count
\* (the script, a file below .git, a file named like the output), run to its end
C6_Witness ==
    /\ pc = "exited"
    /\ Eligible = {}
    /\ out.state = "complete"
    /\ Cardinality(DOMAIN fs) = 2

\* C7: two runs in a row on unchanged project files, the second one finding
\* the cortex-snapshot.json of the first, write documents with the same
\* version, tree and files.
C7_Idempotent ==
    Len(docs) = 2 =>
        /\ docs[1].version = docs[2].version
        /\ docs[1].tree = docs[2].tree
        /\ docs[1].files = docs[2].files

\* both runs wrote a document with a folder in the tree and a captured text
C7_Witness ==
    /\ Len(docs) = 2
    /\ run = 2 /\ pc = "exited"
    /\ out.state = "complete"
    /\ docs[1].createdAt # docs[2].createdAt
    /\ \E i \in 1..Len(docs[2].tree) : IsFolder(docs[2].tree[i])
    /\ DOMAIN docs[2].files # {}

\* C8: a run that has ended, by exiting or by being stopped, has not left a
\* partially written output file.
C8_NoPartialOutput ==
    pc \in {"exited", "killed"} => out.state # "partial"

\* C9: a run in which an Exception escaped main has reported once, as an
\* error, and exits with 1; any other run that exits has reported once, not
\* as an error, and exits with 0.
C9_ExitStatus ==
    pc = "exited" =>
        /\ Len(notified) = 1
        /\ notified[1].is_error = (failure # "none")
        /\ exit_code = (IF failure # "none" THEN 1 ELSE 0)

\* the output file could not be written and the run has exited with 1
C9_Witness ==
    /\ pc = "exited"
    /\ failure = "OSError"
    /\ opens = 1
    /\ exit_code = 1

(***************************************************************************)
(* Properties of is_text_file (under SpecClassify).                        *)
(***************************************************************************)
\* C4: is_text_file decides by the first match: a lowercased extension in
\* the force-text set gives Text without opening the file; otherwise one in
\* the force-binary set gives Binary without opening it; otherwise the file
\* is opened and is Binary iff it cannot be read or has a NUL byte in its
\* first 1024 bytes.
C4_FirstMatch ==
    verdict.done =>
        LET ext == lower(suffix(cfile.path))
        IN  IF ext \in FORCE_TEXT_FILE_EXTENSIONS THEN verdict.ret /\ ~verdict.opened
            ELSE IF ext \in BINARY_FILE_EXTENSIONS THEN ~verdict.ret /\ ~verdict.opened
            ELSE /\ verdict.opened
                 /\ ~verdict.ret <=> (~cfile.readable \/ (cfile.nul >= 0 /\ cfile.nul < 1024))

\* an unreadable force-text file with a NUL byte at its start, classified Text
C4_Witness ==
    /\ verdict.done /\ verdict.ret
    /\ lower(suffix(cfile.path)) \in FORCE_TEXT_FILE_EXTENSIONS
    /\ suffix(cfile.path) \notin FORCE_TEXT_FILE_EXTENSIONS
    /\ cfile.nul = 0 /\ ~cfile.readable
====
